---- MODULE Spec2Model ----
(***************************************************************************)
(* OISP sensor: the SSL/TLS monitor (src/bpf/ssl_monitor.bpf.c) and, in   *)
(* the second half, the process monitor (src/bpf/process_monitor.bpf.c).   *)
(*                                                                         *)
(* The four uprobe handlers, the two BPF hash maps that pair an entry with *)
(* its return, and the BPF ring buffer `events`, with the ring's data area *)
(* kept byte by byte so that what a committed record shows the consumer is *)
(* what the handler stored in it and, where the handler stored nothing,    *)
(* what the ring memory held before.                                       *)
(*                                                                         *)
(* Sizes are scaled: the payload capacity and the ring size stay powers of *)
(* two (the mask in emit_ssl_event and the ring's wrap depend on that).    *)
(* A handler runs on the thread that hit the probe; handlers of different  *)
(* threads run on different CPUs and interleave at the helper calls that   *)
(* touch shared state.  The steps below are cut at the reservation: what   *)
(* lies between bpf_ringbuf_reserve and submit/discard touches only the    *)
(* reserved record and the caller's own memory.                            *)
(***************************************************************************)
EXTENDS Integers, Sequences, FiniteSets, TLC

\* ------------------------------------------------------------------ bounds
NumThreads == 2          \* calling threads (tids 1..NumThreads)
MaxCallers == 2          \* Spec: (thread, call kind) pairs that make calls in one run
MaxRecords == 2          \* Spec: records reserved in one run
CallsCallers == 2        \* SpecCalls: pairs that make calls in one run
CallsRecords == 1        \* SpecCalls: records reserved in one run
RingCallers == 1         \* SpecRing: pairs that make calls in one run
RingRecords == 3         \* SpecRing: records reserved in one run
CountCallers == 2        \* SpecCount: pairs that make calls in one run
CountRecords == 1        \* SpecCount: records reserved in one run
MaxCount == 2            \* SpecCount: entries, and positive returns, counted per pair
ProcTasks == 2           \* SpecProc: tasks that hit tracepoints in one run
ProcRecords == 3         \* SpecProc: records reserved in one run
ReuseTasks == 1          \* SpecReuse: tasks that hit tracepoints in one run
ReuseRecords == 5        \* SpecReuse: records reserved in one run
LiveCallers == 1         \* SpecLive: pairs that make calls in one run of the SSL monitor
LiveRecords == 3         \* SpecLive: records reserved in one run of the SSL monitor
LiveTasks == 2           \* SpecLive: tasks that hit tracepoints in one run of the process monitor
LiveProcs == 2           \* SpecLive: records reserved in one run of the process monitor
NumTasks == 2            \* tasks that hit the tracepoints of the process monitor

\* ------------------------------------------------- constants of the source
MAX_DATA_SIZE == 4       \* 16384 in the source, scaled; a power of two
RINGBUF_SIZE == 128      \* 256 * 1024 in the source, scaled; a power of two
MAX_ENTRIES == 2         \* 10240 in the source, scaled
SSL_READ == 0
SSL_WRITE == 1
COMM_LEN == 16           \* char comm[16]
BPF_RINGBUF_HDR_SZ == 8  \* the record header bpf_ringbuf_reserve prepends
BUSY_BIT == 128          \* bit 31 of the header's len, as its top byte
DISCARD_BIT == 64        \* bit 30 of the header's len, as its top byte

\* struct ssl_data_event: the offsets the compiler gives the fields
OFF_timestamp_ns == 0
OFF_pid == 8
OFF_tid == 12
OFF_uid == 16
OFF_data_len == 20
OFF_type == 24
OFF_data == 25
OFF_comm == OFF_data + MAX_DATA_SIZE

RoundUp8(n) == ((n + 7) \div 8) * 8

\* sizeof(struct ssl_data_event): 8-byte aligned because of the __u64
SIZEOF_ssl_data_event == RoundUp8(OFF_comm + COMM_LEN)

Threads == 1..NumThreads
Bufs == {1, 2}           \* user buffer addresses handed to SSL_read/SSL_write
Contents == {0, 1}       \* a buffer when it is read: 0 = not mapped, 1 = mapped
Rets == {-1, 0, 1, MAX_DATA_SIZE, MAX_DATA_SIZE + 1}
Types == {SSL_READ, SSL_WRITE}

\* ------------------------------------------------------------ the caller
\* bpf_get_current_pid_tgid(): tgid in the upper half, thread id in the lower.
\* Threads 1 and 2 belong to process 1, threads 3 and 4 to process 2.
bpf_get_current_pid_tgid_NoTid(t) == [tgid |-> (t + 1) \div 2, pid |-> 0]
bpf_get_current_pid_tgid(t) == [tgid |-> (t + 1) \div 2, pid |-> t]

\* bpf_get_current_uid_gid(): uid in the lower half
bpf_get_current_uid_gid(t) == [uid |-> 100 + (t + 1) \div 2, gid |-> 100]

\* bpf_ktime_get_ns(): the clock is not part of any state the handlers keep
bpf_ktime_get_ns == 1

\* ------------------------------------------------------------- bytes
RECURSIVE BitAnd(_, _)
BitAnd(a, b) ==
    IF a = 0 \/ b = 0 THEN 0
    ELSE (a % 2) * (b % 2) + 2 * BitAnd(a \div 2, b \div 2)

\* little-endian bytes of an unsigned value
RECURSIVE LE(_, _)
LE(v, n) == IF n = 0 THEN <<>> ELSE <<v % 256>> \o LE(v \div 256, n - 1)

RECURSIVE FromLE(_)
FromLE(s) == IF s = <<>> THEN 0 ELSE s[1] + 256 * FromLE(Tail(s))

Zeros(n) == [i \in 1..n |-> 0]

\* bpf_get_current_comm(): the task's name, NUL padded to the field
bpf_get_current_comm(t) == <<115, 48 + t>> \o Zeros(COMM_LEN - 2)

\* The bytes of user buffer b when it holds fill c (c # 0), first n of them
UserBytes(b, c, n) == [i \in 1..n |-> ((3 * b + c) * MAX_DATA_SIZE + i - 1) % 256]

\* ------------------------------------------------------ BPF_MAP_TYPE_RINGBUF
\* The data area: byte i of the record at position pos lives at pos % size.
Idx(pos) == pos % RINGBUF_SIZE

StoreBytes(mem, pos, bytes) ==
    LET at(i) == (i - pos) % RINGBUF_SIZE
        stored == [i \in {Idx(pos + k - 1) : k \in 1..Len(bytes)} |-> bytes[at(i) + 1]]
    IN stored @@ mem

LoadBytes(mem, pos, n) == [i \in 1..n |-> mem[Idx(pos + i - 1)]]

RbRecLen(size) == RoundUp8(size + BPF_RINGBUF_HDR_SZ)

\* header: u32 len (size, with the busy and discard bits on top), u32 pg_off
RbHeader(size, flags) == <<size % 256, (size \div 256) % 256, (size \div 65536) % 256, flags>> \o Zeros(4)

RbHdrSize(mem, pos) == FromLE(LoadBytes(mem, pos, 3))
RbHdrFlags(mem, pos) == mem[Idx(pos + 3)]
RbBusy(mem, pos) == RbHdrFlags(mem, pos) \div BUSY_BIT = 1
RbDiscarded(mem, pos) == (RbHdrFlags(mem, pos) % BUSY_BIT) \div DISCARD_BIT = 1

\* bpf_ringbuf_reserve fails when the producer would get more than size - 1
\* bytes ahead of the consumer
RbHasSpace_NoCheck(rb, size) == TRUE
RbHasSpace(rb, size) ==
    (rb.producer_pos + RbRecLen(size)) - rb.consumer_pos <= RINGBUF_SIZE - 1

\* bpf_ringbuf_reserve, when there is space: the header is written busy and the
\* producer position advances; the sample starts after the header
RbReserve_NotBusy(rb, size) ==
    [rb EXCEPT !.mem = StoreBytes(@, rb.producer_pos, RbHeader(size, 0)),
               !.producer_pos = @ + RbRecLen(size)]
RbReserve(rb, size) ==
    [rb EXCEPT !.mem = StoreBytes(@, rb.producer_pos, RbHeader(size, BUSY_BIT)),
               !.producer_pos = @ + RbRecLen(size)]

RbSample(pos) == pos + BPF_RINGBUF_HDR_SZ

\* bpf_ringbuf_submit / bpf_ringbuf_discard: the header's len is rewritten
\* without the busy bit (and with the discard bit), which changes its top
\* byte only; pos is the record's header
RbSubmit_StaysBusy(rb, pos) == rb
RbSubmit(rb, pos) ==
    [rb EXCEPT !.mem = StoreBytes(@, pos + 3, <<0>>)]

RbDiscard_Publishes(rb, pos) == RbSubmit(rb, pos)
RbDiscard(rb, pos) ==
    [rb EXCEPT !.mem = StoreBytes(@, pos + 3, <<DISCARD_BIT>>)]

\* The records between the consumer and the producer, oldest first
RECURSIVE RbRecords(_, _, _)
RbRecords(mem, from, to) ==
    IF from >= to THEN <<>>
    ELSE <<from>> \o RbRecords(mem, from + RbRecLen(RbHdrSize(mem, from)), to)

\* ------------------------------------------------------ BPF_MAP_TYPE_HASH
\* A map is a set of [key, value] elements.  bpf_map_lookup_elem gives the
\* elements of the key: none stands for the NULL it returns on a miss.
MapLookup(m, key) == {e \in m : e.key = key}

\* if (!buf_ptr)
IsNull_Never(buf_ptr) == FALSE
IsNull(buf_ptr) == buf_ptr = {}

\* *buf_ptr; the handlers read it only after the NULL check
Deref(buf_ptr) == IF buf_ptr = {} THEN 0 ELSE (CHOOSE e \in buf_ptr : TRUE).value

\* bpf_map_update_elem(.., BPF_ANY): replaces the element of the key; a new key
\* needs a free element, and the update fails when max_entries are in use
MapUpdate_Adds(m, key, value) == m \cup {[key |-> key, value |-> value]}
MapUpdate_KeepsOld(m, key, value) ==
    IF MapLookup(m, key) # {} THEN m
    ELSE IF Cardinality(m) >= MAX_ENTRIES THEN m
    ELSE m \cup {[key |-> key, value |-> value]}
MapUpdate_Evicts(m, key, value) ==
    IF MapLookup(m, key) # {}
    THEN (m \ MapLookup(m, key)) \cup {[key |-> key, value |-> value]}
    ELSE IF Cardinality(m) >= MAX_ENTRIES
    THEN (m \ {CHOOSE e \in m : TRUE}) \cup {[key |-> key, value |-> value]}
    ELSE m \cup {[key |-> key, value |-> value]}
MapUpdate(m, key, value) ==
    IF MapLookup(m, key) # {}
    THEN (m \ MapLookup(m, key)) \cup {[key |-> key, value |-> value]}
    ELSE IF Cardinality(m) >= MAX_ENTRIES THEN m
    ELSE m \cup {[key |-> key, value |-> value]}

MapDelete_Keeps(m, key) == m
MapDelete(m, key) == m \ MapLookup(m, key)

\* ------------------------------------------------------------------ state
Tasks == 1..NumTasks
ProcIdle == [pc |-> "idle", event |-> 0, parent_pid |-> 0, child_pid |-> 0, exit_code |-> 0]
NoProcStep == [op |-> "none", t |-> 0, res |-> "none", event |-> 0, arg |-> 0]
ProcStep(op, t, res, event, arg) == [op |-> op, t |-> t, res |-> res, event |-> event, arg |-> arg]

VARIABLES
    ssl_write_args,   \* the hash map of SSL_write entries
    ssl_read_args,    \* the hash map of SSL_read entries
    events,           \* the ring buffer: [mem, producer_pos, consumer_pos]
    hnd,              \* per thread: the handler it is in, with its locals
    commitLog,        \* history: header positions in the order of bpf_ringbuf_submit
    drained,          \* history: header positions the consumer was handed, in order
    last,             \* history: the handler step taken last, and how it ended
    hist,             \* history: per (thread, kind), the buffers of the entries since its last return
    callers,          \* history: the (thread, call kind) pairs that made a call
    count,            \* history: per (thread, kind), the entries, positive returns and commits counted
    proc_events,      \* the ring buffer of the process monitor: [mem, producer_pos, consumer_pos]
    proc_hnd,         \* per task: the tracepoint handler it is in, with its locals
    proc_last,        \* history: the tracepoint handler step taken last, and how it ended
    run               \* the limits of this run, fixed at Init

proc_vars == <<proc_events, proc_hnd, proc_last>>
ssl_vars == <<ssl_write_args, ssl_read_args, events, hnd, commitLog, drained, last, hist, callers, count>>
vars == <<ssl_write_args, ssl_read_args, events, hnd, commitLog, drained, last, hist, callers, count,
          proc_vars, run>>

Idle == [pc |-> "idle", event |-> 0, buf |-> 0, len |-> 0, type |-> 0]
NoStep == [op |-> "none", t |-> 0, type |-> 0, res |-> "none", over |-> 0]
Step(op, t, type, res) == [op |-> op, t |-> t, type |-> type, res |-> res, over |-> 0]

\* A return step also records the buffer of an entry that a later entry of the
\* same pair replaced before this return (0 when there was none)
Overwritten(t, type) == IF Len(hist[<<t, type>>]) = 2 THEN hist[<<t, type>>][1] ELSE 0
Returned(t, type, res) ==
    /\ last' = [Step("return", t, type, res) EXCEPT !.over = Overwritten(t, type)]
    /\ hist' = [hist EXCEPT ![<<t, type>>] = <<>>]

\* An entry step keeps the last two buffers (only in a run that records calls)
Entered(t, type, buf) ==
    hist' = IF run.calls
            THEN [hist EXCEPT ![<<t, type>>] = IF @ = <<>> THEN <<buf>> ELSE <<@[Len(@)], buf>>]
            ELSE hist

\* The counts of a (thread, kind) pair, kept only in a run that counts
\* (run.count > 0), in which no count goes beyond run.count
NoCount == [entries |-> 0, returns |-> 0, commits |-> 0]
CountEntry(t, type) ==
    IF run.count = 0 THEN count' = count
    ELSE /\ count[<<t, type>>].entries < run.count
         /\ count' = [count EXCEPT ![<<t, type>>].entries = @ + 1]
CountReturn(t, type, ret) ==
    IF run.count = 0 \/ ret <= 0 THEN count' = count
    ELSE /\ count[<<t, type>>].returns < run.count
         /\ count' = [count EXCEPT ![<<t, type>>].returns = @ + 1]
CountCommit(t, type) ==
    count' = IF run.count = 0 THEN count ELSE [count EXCEPT ![<<t, type>>].commits = @ + 1]

\* A call that never returned (its thread died inside it) left its element in
\* the map: the key of such a thread, which makes no further call.
LeftBehind == [key |-> [tgid |-> 9, pid |-> 9], value |-> 1]

\* The bound on who calls: a pair that has called may call again, a new pair
\* only while fewer than run.callers have.
Calls(t, type) ==
    /\ \/ <<t, type>> \in callers
       \/ Cardinality(callers) < run.callers
    /\ callers' = callers \cup {<<t, type>>}

InitWith(limits) ==
    /\ ssl_write_args \in {{}, {LeftBehind}}
    /\ ssl_read_args = ssl_write_args
    /\ events = [mem |-> [i \in 0..(RINGBUF_SIZE - 1) |-> 0], producer_pos |-> 0, consumer_pos |-> 0]
    /\ hnd = [t \in Threads |-> Idle]
    /\ commitLog = <<>>
    /\ drained = <<>>
    /\ last = NoStep
    /\ hist = [p \in Threads \X Types |-> <<>>]
    /\ callers = {}
    /\ count = [p \in Threads \X Types |-> NoCount]
    /\ proc_events = [mem |-> [i \in 0..(RINGBUF_SIZE - 1) |-> 0], producer_pos |-> 0, consumer_pos |-> 0]
    /\ proc_hnd = [t \in Tasks |-> ProcIdle]
    /\ proc_last = NoProcStep
    /\ run = limits

Init == InitWith([callers |-> MaxCallers, records |-> MaxRecords, calls |-> FALSE, count |-> 0, procs |-> 0, tasks |-> 0])

\* ------------------------------------------------------- the event record
\* What the record whose header is at pos shows a reader of the ring
SslEventAt(mem, pos) ==
    LET s == RbSample(pos)
    IN [timestamp_ns |-> FromLE(LoadBytes(mem, s + OFF_timestamp_ns, 8)),
        pid |-> FromLE(LoadBytes(mem, s + OFF_pid, 4)),
        tid |-> FromLE(LoadBytes(mem, s + OFF_tid, 4)),
        uid |-> FromLE(LoadBytes(mem, s + OFF_uid, 4)),
        data_len |-> FromLE(LoadBytes(mem, s + OFF_data_len, 4)),
        type |-> mem[Idx(s + OFF_type)],
        data |-> LoadBytes(mem, s + OFF_data, MAX_DATA_SIZE),
        comm |-> LoadBytes(mem, s + OFF_comm, COMM_LEN)]

\* lines 66-76: the fields emit_ssl_event stores before it reads the buffer
SslEventFill(mem, pos, t, len, type) ==
    LET s == RbSample(pos)
        m1 == StoreBytes(mem, s + OFF_timestamp_ns, LE(bpf_ktime_get_ns, 8))
        m2 == StoreBytes(m1, s + OFF_pid, LE(bpf_get_current_pid_tgid(t).tgid, 4))
        m3 == StoreBytes(m2, s + OFF_tid, LE(bpf_get_current_pid_tgid(t).pid, 4))
        m4 == StoreBytes(m3, s + OFF_uid, LE(bpf_get_current_uid_gid(t).uid, 4))
        m5 == StoreBytes(m4, s + OFF_type, <<type>>)
        m6 == StoreBytes(m5, s + OFF_data_len, LE(len, 4))
    IN StoreBytes(m6, s + OFF_comm, bpf_get_current_comm(t))

\* line 56: the lengths emit_ssl_event refuses
LenRejected_NoUpper(len) == len <= 0
LenRejected(len) == len <= 0 \/ len > MAX_DATA_SIZE

\* line 79: the size handed to bpf_probe_read_user
ReadSize(len) == BitAnd(len, MAX_DATA_SIZE - 1)

\* bpf_probe_read_user(dst, size, src), with c what the caller's memory is at
\* src when the helper runs: size 0 copies nothing and succeeds; an unreadable
\* source zeroes the destination and fails
ProbeReadOk(size, c) == size = 0 \/ c # 0
bpf_probe_read_user(mem, dst, size, src, c) ==
    IF size = 0 THEN mem
    ELSE IF c = 0 THEN StoreBytes(mem, dst, Zeros(size))
    ELSE StoreBytes(mem, dst, UserBytes(src, c, size))

\* ---------------------------------------------------------------- handlers
\* lines 55-76 of emit_ssl_event: the length check, the reservation and the
\* fields; the thread is left holding the reserved record
emit_ssl_event(t, buf, len, type) ==
    IF LenRejected(len)
    THEN /\ UNCHANGED <<events, hnd>>
         /\ Returned(t, type, "range")
    ELSE IF ~RbHasSpace(events, SIZEOF_ssl_data_event)
    THEN /\ UNCHANGED <<events, hnd>>
         /\ Returned(t, type, "full")
    ELSE LET pos == events.producer_pos
             rb == RbReserve(events, SIZEOF_ssl_data_event)
         IN /\ rb.producer_pos <= run.records * RbRecLen(SIZEOF_ssl_data_event)
            /\ events' = [rb EXCEPT !.mem = SslEventFill(@, pos, t, len, type)]
            /\ hnd' = [hnd EXCEPT ![t] = [pc |-> "reserved", event |-> pos,
                                         buf |-> buf, len |-> len, type |-> type]]
            /\ Returned(t, type, "reserved")

\* lines 78-85 of emit_ssl_event: the copy from the user buffer, then the
\* record is discarded or submitted
emit_ssl_event_copy(t, c) ==
    /\ hnd[t].pc = "reserved"
    /\ LET h == hnd[t]
           size == ReadSize(h.len)
           dst == RbSample(h.event) + OFF_data
           rb == [events EXCEPT !.mem = bpf_probe_read_user(@, dst, size, h.buf, c)]
       IN IF ~ProbeReadOk(size, c)
          THEN /\ events' = RbDiscard(rb, h.event)
               /\ UNCHANGED <<commitLog, count>>
               /\ last' = Step("copy", t, h.type, "discarded")
          ELSE /\ events' = RbSubmit(rb, h.event)
               /\ commitLog' = Append(commitLog, h.event)
               /\ CountCommit(t, h.type)
               /\ last' = Step("copy", t, h.type, "submitted")
    /\ hnd' = [hnd EXCEPT ![t] = Idle]
    /\ UNCHANGED <<ssl_write_args, ssl_read_args, drained, hist, callers, proc_vars, run>>

\* lines 89-94
ssl_write_entry(t, buf) ==
    /\ hnd[t].pc = "idle"
    /\ Calls(t, SSL_WRITE)
    /\ LET pid_tgid == bpf_get_current_pid_tgid(t)
       IN /\ ssl_write_args' = MapUpdate(ssl_write_args, pid_tgid, buf)
          /\ last' = Step("entry", t, SSL_WRITE,
                          IF \E e \in ssl_write_args : e.key = pid_tgid THEN "replaced"
                          ELSE IF ssl_write_args' = ssl_write_args THEN "nospace"
                          ELSE "added")
    /\ Entered(t, SSL_WRITE, buf)
    /\ CountEntry(t, SSL_WRITE)
    /\ UNCHANGED <<ssl_read_args, events, hnd, commitLog, drained, proc_vars, run>>

\* lines 97-114
ssl_write_return(t, ret) ==
    /\ hnd[t].pc = "idle"
    /\ Calls(t, SSL_WRITE)
    /\ CountReturn(t, SSL_WRITE, ret)
    /\ LET pid_tgid == bpf_get_current_pid_tgid(t)
           buf_ptr == MapLookup(ssl_write_args, pid_tgid)
       IN IF IsNull(buf_ptr)
          THEN /\ UNCHANGED <<ssl_write_args, events, hnd>>
               /\ Returned(t, SSL_WRITE, "miss")
          ELSE LET buf == Deref(buf_ptr)
               IN /\ ssl_write_args' = MapDelete(ssl_write_args, pid_tgid)
                  /\ IF ret > 0
                     THEN emit_ssl_event(t, buf, ret, SSL_WRITE)
                     ELSE /\ UNCHANGED <<events, hnd>>
                          /\ Returned(t, SSL_WRITE, "nonpos")
    /\ UNCHANGED <<ssl_read_args, commitLog, drained, proc_vars, run>>

\* lines 117-122, had the read entry shared the map of the write entry
ssl_read_entry_SharedStore(t, buf) ==
    /\ hnd[t].pc = "idle"
    /\ Calls(t, SSL_READ)
    /\ LET pid_tgid == bpf_get_current_pid_tgid(t)
       IN /\ ssl_write_args' = MapUpdate(ssl_write_args, pid_tgid, buf)
          /\ last' = Step("entry", t, SSL_READ, "added")
    /\ Entered(t, SSL_READ, buf)
    /\ CountEntry(t, SSL_READ)
    /\ UNCHANGED <<ssl_read_args, events, hnd, commitLog, drained, proc_vars, run>>

\* lines 117-122
ssl_read_entry(t, buf) ==
    /\ hnd[t].pc = "idle"
    /\ Calls(t, SSL_READ)
    /\ LET pid_tgid == bpf_get_current_pid_tgid(t)
       IN /\ ssl_read_args' = MapUpdate(ssl_read_args, pid_tgid, buf)
          /\ last' = Step("entry", t, SSL_READ,
                          IF \E e \in ssl_read_args : e.key = pid_tgid THEN "replaced"
                          ELSE IF ssl_read_args' = ssl_read_args THEN "nospace"
                          ELSE "added")
    /\ Entered(t, SSL_READ, buf)
    /\ CountEntry(t, SSL_READ)
    /\ UNCHANGED <<ssl_write_args, events, hnd, commitLog, drained, proc_vars, run>>

\* lines 125-142
ssl_read_return(t, ret) ==
    /\ hnd[t].pc = "idle"
    /\ Calls(t, SSL_READ)
    /\ CountReturn(t, SSL_READ, ret)
    /\ LET pid_tgid == bpf_get_current_pid_tgid(t)
           buf_ptr == MapLookup(ssl_read_args, pid_tgid)
       IN IF IsNull(buf_ptr)
          THEN /\ UNCHANGED <<ssl_read_args, events, hnd>>
               /\ Returned(t, SSL_READ, "miss")
          ELSE LET buf == Deref(buf_ptr)
               IN /\ ssl_read_args' = MapDelete(ssl_read_args, pid_tgid)
                  /\ IF ret > 0
                     THEN emit_ssl_event(t, buf, ret, SSL_READ)
                     ELSE /\ UNCHANGED <<events, hnd>>
                          /\ Returned(t, SSL_READ, "nonpos")
    /\ UNCHANGED <<ssl_write_args, commitLog, drained, proc_vars, run>>

\* ------------------------------------------------------------- environment
\* The consumer takes the record at the consumer position once it is no
\* longer busy, hands it on unless it was discarded, and releases its bytes.
Consume ==
    /\ events.consumer_pos < events.producer_pos
    /\ ~RbBusy(events.mem, events.consumer_pos)
    /\ LET pos == events.consumer_pos
       IN /\ drained' = IF RbDiscarded(events.mem, pos) THEN drained ELSE Append(drained, pos)
          /\ events' = [events EXCEPT !.consumer_pos = pos + RbRecLen(RbHdrSize(events.mem, pos))]
    /\ last' = NoStep
    /\ UNCHANGED <<ssl_write_args, ssl_read_args, hnd, commitLog, hist, callers, count, proc_vars, run>>

Next ==
    \/ \E t \in Threads, buf \in Bufs : ssl_write_entry(t, buf)
    \/ \E t \in Threads, ret \in Rets : ssl_write_return(t, ret)
    \/ \E t \in Threads, buf \in Bufs : ssl_read_entry(t, buf)
    \/ \E t \in Threads, ret \in Rets : ssl_read_return(t, ret)
    \/ \E t \in Threads, c \in Contents : emit_ssl_event_copy(t, c)
    \/ Consume

Spec == Init /\ [][Next]_vars

\* The same handlers in a run that records, per (thread, kind), the entries
\* since the last return
InitCalls == InitWith([callers |-> CallsCallers, records |-> CallsRecords, calls |-> TRUE, count |-> 0, procs |-> 0, tasks |-> 0])
SpecCalls == InitCalls /\ [][Next]_vars

\* The same handlers with one caller and room for a record more than the ring holds
InitRing == InitWith([callers |-> RingCallers, records |-> RingRecords, calls |-> FALSE, count |-> 0, procs |-> 0, tasks |-> 0])
SpecRing == InitRing /\ [][Next]_vars

\* The same handlers in a run that counts, per (thread, kind), the entries,
\* the returns with a positive result and the commits
InitCount == InitWith([callers |-> CountCallers, records |-> CountRecords, calls |-> FALSE,
                       count |-> MaxCount, procs |-> 0, tasks |-> 0])
SpecCount == InitCount /\ [][Next]_vars

\* ------------------------------------- process monitor: the event record
\* (src/bpf/process_monitor.bpf.c; the string capacities are scaled)
TASK_COMM_LEN == 4       \* 16 in the source, scaled
MAX_ARGS_LEN == 4        \* 256 in the source, scaled
MAX_PATH_LEN == 4        \* 256 in the source, scaled
PROC_EXEC == 0
PROC_EXIT == 1
PROC_FORK == 2
ProcKinds == {PROC_EXEC, PROC_EXIT, PROC_FORK}

\* struct process_event: the offsets the compiler gives the fields (three
\* bytes of padding follow type)
PE_timestamp_ns == 0
PE_pid == 8
PE_ppid == 12
PE_uid == 16
PE_gid == 20
PE_type == 24
PE_exit_code == 28
PE_comm == 32
PE_exe == PE_comm + TASK_COMM_LEN
PE_args == PE_exe + MAX_PATH_LEN
SIZEOF_process_event == RoundUp8(PE_args + MAX_ARGS_LEN)

\* What the tracepoints hand the handlers
Filenames == {<<47, 97>>, <<47, 98, 99, 100, 101>>}   \* ctx->filename: "/a", "/bcde"
ExitCodes == {0, 3}                                   \* task->exit_code
ParentPids == {1, 2}                                  \* ctx->parent_pid
ChildPids == {3, 4}                                   \* ctx->child_pid
task_comm(pid) == <<112, 48 + pid>>                   \* task->comm: "p1", "p2"
real_parent_tgid(t) == 1                              \* task->real_parent->tgid

Min(a, b) == IF a < b THEN a ELSE b

\* bpf_get_current_comm(buf, size): the name, cut to size - 1 bytes, and zeros
\* up to size
StrPad_Unterminated(str, size) ==
    [i \in 1..size |-> IF i <= Len(str) THEN str[i] ELSE 32]
StrPad(str, size) ==
    LET n == Min(Len(str), size - 1) IN SubSeq(str, 1, n) \o Zeros(size - n)

\* bpf_probe_read_str(dst, size, src): on success the string cut to size - 1
\* bytes and one terminator, the rest of dst not written; on a fault dst is
\* zeroed over size bytes
StrCopy_NoTerminator(str, size) == SubSeq(str, 1, Min(Len(str), size))
StrCopy(str, size) == SubSeq(str, 1, Min(Len(str), size - 1)) \o <<0>>
bpf_probe_read_str(mem, dst, size, str, c) ==
    IF c = 0 THEN StoreBytes(mem, dst, Zeros(size))
    ELSE StoreBytes(mem, dst, StrCopy(str, size))

\* What the record whose header is at pos shows a reader of the ring
ProcEventAt(mem, pos) ==
    LET s == RbSample(pos)
    IN [timestamp_ns |-> FromLE(LoadBytes(mem, s + PE_timestamp_ns, 8)),
        pid |-> FromLE(LoadBytes(mem, s + PE_pid, 4)),
        ppid |-> FromLE(LoadBytes(mem, s + PE_ppid, 4)),
        uid |-> FromLE(LoadBytes(mem, s + PE_uid, 4)),
        gid |-> FromLE(LoadBytes(mem, s + PE_gid, 4)),
        type |-> mem[Idx(s + PE_type)],
        exit_code |-> FromLE(LoadBytes(mem, s + PE_exit_code, 4)),
        comm |-> LoadBytes(mem, s + PE_comm, TASK_COMM_LEN),
        exe |-> LoadBytes(mem, s + PE_exe, MAX_PATH_LEN),
        args |-> LoadBytes(mem, s + PE_args, MAX_ARGS_LEN)]

\* lines 55-63 and 86-94: the fields trace_exec and trace_exit store
ProcEventFill(mem, pos, t, type, exit_code) ==
    LET s == RbSample(pos)
        m1 == StoreBytes(mem, s + PE_timestamp_ns, LE(bpf_ktime_get_ns, 8))
        m2 == StoreBytes(m1, s + PE_pid, LE(bpf_get_current_pid_tgid(t).tgid, 4))
        m3 == StoreBytes(m2, s + PE_ppid, LE(real_parent_tgid(t), 4))
        m4 == StoreBytes(m3, s + PE_uid, LE(bpf_get_current_uid_gid(t).uid, 4))
        m5 == StoreBytes(m4, s + PE_gid, LE(bpf_get_current_uid_gid(t).gid, 4))
        m6 == StoreBytes(m5, s + PE_type, <<type>>)
        m7 == StoreBytes(m6, s + PE_exit_code, LE(exit_code, 4))
    IN StoreBytes(m7, s + PE_comm, StrPad(task_comm(t), TASK_COMM_LEN))

\* lines 109-113: the fields trace_fork stores
ForkEventFill_PidIsChild(mem, pos, parent_pid, child_pid) ==
    LET s == RbSample(pos)
        m1 == StoreBytes(mem, s + PE_timestamp_ns, LE(bpf_ktime_get_ns, 8))
        m2 == StoreBytes(m1, s + PE_pid, LE(child_pid, 4))
        m3 == StoreBytes(m2, s + PE_ppid, LE(parent_pid, 4))
        m4 == StoreBytes(m3, s + PE_type, <<PROC_FORK>>)
    IN StoreBytes(m4, s + PE_exit_code, LE(0, 4))
ForkEventFill(mem, pos, parent_pid, child_pid) ==
    LET s == RbSample(pos)
        m1 == StoreBytes(mem, s + PE_timestamp_ns, LE(bpf_ktime_get_ns, 8))
        m2 == StoreBytes(m1, s + PE_pid, LE(parent_pid, 4))
        m3 == StoreBytes(m2, s + PE_ppid, LE(parent_pid, 4))
        m4 == StoreBytes(m3, s + PE_type, <<PROC_FORK>>)
    IN StoreBytes(m4, s + PE_exit_code, LE(child_pid, 4))

\* ---------------------------------------- process monitor: the handlers
\* bpf_ringbuf_reserve of one process_event by task t, whose handler goes on
\* with the locals h: no room, or the record reserved with the fields the
\* handler stores (filled: the ring memory after those stores)
ProcReserved == RbReserve(proc_events, SIZEOF_process_event)

ProcReserve(t, h, filled, arg) ==
    /\ t <= run.tasks
    /\ IF ~RbHasSpace(proc_events, SIZEOF_process_event)
       THEN /\ UNCHANGED <<proc_events, proc_hnd>>
            /\ proc_last' = ProcStep(h.pc, t, "full", 0, 0)
       ELSE LET pos == proc_events.producer_pos
                rb == ProcReserved
            IN /\ rb.producer_pos <= run.procs * RbRecLen(SIZEOF_process_event)
               /\ proc_events' = [rb EXCEPT !.mem = filled]
               /\ proc_hnd' = [proc_hnd EXCEPT ![t] = [h EXCEPT !.event = pos]]
               /\ proc_last' = ProcStep(h.pc, t, "reserved", pos, arg)

\* lines 45-63 of trace_exec
trace_exec(t) ==
    /\ proc_hnd[t].pc = "idle"
    /\ LET filled == ProcEventFill(ProcReserved.mem, proc_events.producer_pos, t, PROC_EXEC, 0)
       IN ProcReserve(t, [ProcIdle EXCEPT !.pc = "exec"], filled, 0)
    /\ UNCHANGED <<ssl_vars, run>>

\* lines 66-69 of trace_exec: the result of bpf_probe_read_str is not looked at
trace_exec_submit(t, filename, c) ==
    /\ proc_hnd[t].pc = "exec"
    /\ LET pos == proc_hnd[t].event
           dst == RbSample(pos) + PE_exe
           rb == [proc_events EXCEPT !.mem = bpf_probe_read_str(@, dst, MAX_PATH_LEN, filename, c)]
       IN /\ proc_events' = RbSubmit(rb, pos)
          /\ proc_last' = ProcStep("exec", t, "submitted", pos, IF c = 0 THEN 0 ELSE Len(filename))
    /\ proc_hnd' = [proc_hnd EXCEPT ![t] = ProcIdle]
    /\ UNCHANGED <<ssl_vars, run>>

\* lines 76-94 of trace_exit
trace_exit(t, exit_code) ==
    /\ proc_hnd[t].pc = "idle"
    /\ LET filled == ProcEventFill(ProcReserved.mem, proc_events.producer_pos, t, PROC_EXIT, exit_code)
       IN ProcReserve(t, [ProcIdle EXCEPT !.pc = "exit", !.exit_code = exit_code], filled, exit_code)
    /\ UNCHANGED <<ssl_vars, run>>

\* lines 96-97 of trace_exit
trace_exit_submit(t) ==
    /\ proc_hnd[t].pc = "exit"
    /\ LET pos == proc_hnd[t].event
       IN /\ proc_events' = RbSubmit(proc_events, pos)
          /\ proc_last' = ProcStep("exit", t, "submitted", pos, proc_hnd[t].exit_code)
    /\ proc_hnd' = [proc_hnd EXCEPT ![t] = ProcIdle]
    /\ UNCHANGED <<ssl_vars, run>>

\* lines 104-113 of trace_fork
trace_fork(t, parent_pid, child_pid) ==
    /\ proc_hnd[t].pc = "idle"
    /\ LET filled == ForkEventFill(ProcReserved.mem, proc_events.producer_pos, parent_pid, child_pid)
           h == [ProcIdle EXCEPT !.pc = "fork", !.parent_pid = parent_pid, !.child_pid = child_pid]
       IN ProcReserve(t, h, filled, child_pid)
    /\ UNCHANGED <<ssl_vars, run>>

\* lines 115-118 of trace_fork
trace_fork_submit(t, c) ==
    /\ proc_hnd[t].pc = "fork"
    /\ LET pos == proc_hnd[t].event
           dst == RbSample(pos) + PE_comm
           parent_comm == task_comm(proc_hnd[t].parent_pid)
           rb == [proc_events EXCEPT !.mem = bpf_probe_read_str(@, dst, TASK_COMM_LEN, parent_comm, c)]
       IN /\ proc_events' = RbSubmit(rb, pos)
          /\ proc_last' = ProcStep("fork", t, "submitted", pos, proc_hnd[t].child_pid)
    /\ proc_hnd' = [proc_hnd EXCEPT ![t] = ProcIdle]
    /\ UNCHANGED <<ssl_vars, run>>

\* The consumer of the process monitor's ring
ProcConsume ==
    /\ proc_events.consumer_pos < proc_events.producer_pos
    /\ ~RbBusy(proc_events.mem, proc_events.consumer_pos)
    /\ LET pos == proc_events.consumer_pos
       IN proc_events' = [proc_events EXCEPT
                             !.consumer_pos = pos + RbRecLen(RbHdrSize(proc_events.mem, pos))]
    /\ proc_last' = NoProcStep
    /\ UNCHANGED <<proc_hnd, ssl_vars, run>>

NextProc ==
    \/ \E t \in Tasks : trace_exec(t)
    \/ \E t \in Tasks, filename \in Filenames, c \in Contents : trace_exec_submit(t, filename, c)
    \/ \E t \in Tasks, exit_code \in ExitCodes : trace_exit(t, exit_code)
    \/ \E t \in Tasks : trace_exit_submit(t)
    \/ \E t \in Tasks, parent_pid \in ParentPids, child_pid \in ChildPids : trace_fork(t, parent_pid, child_pid)
    \/ \E t \in Tasks, c \in Contents : trace_fork_submit(t, c)
    \/ ProcConsume

InitProc ==
    /\ InitWith([callers |-> 0, records |-> 0, calls |-> FALSE, count |-> 0,
                 procs |-> ProcRecords, tasks |-> ProcTasks])
    /\ ssl_write_args = {}
SpecProc == InitProc /\ [][NextProc]_vars

\* The same handlers run by one task, long enough for records to lie on
\* memory that two earlier records have used
InitReuse ==
    /\ InitWith([callers |-> 0, records |-> 0, calls |-> FALSE, count |-> 0,
                 procs |-> ReuseRecords, tasks |-> ReuseTasks])
    /\ ssl_write_args = {}
SpecReuse == InitReuse /\ [][NextProc]_vars

\* Both monitors under the scheduling the kernel gives them.  A BPF program
\* cannot block or loop without bound, so a handler that has reserved a record
\* reaches its bpf_ringbuf_submit or bpf_ringbuf_discard; the user-space
\* consumer is taken to keep draining each ring.  A run is of one monitor:
\* the two programs share no map.
InitLive ==
    \/ InitWith([callers |-> LiveCallers, records |-> LiveRecords, calls |-> FALSE, count |-> 0,
                 procs |-> 0, tasks |-> 0])
    \/ /\ InitWith([callers |-> 0, records |-> 0, calls |-> FALSE, count |-> 0,
                    procs |-> LiveProcs, tasks |-> LiveTasks])
       /\ ssl_write_args = {}
NextLive == Next \/ NextProc
Fairness ==
    /\ \A t \in Threads : WF_vars(\E c \in Contents : emit_ssl_event_copy(t, c))
    /\ \A t \in Tasks : WF_vars(\E filename \in Filenames, c \in Contents : trace_exec_submit(t, filename, c))
    /\ \A t \in Tasks : WF_vars(trace_exit_submit(t))
    /\ \A t \in Tasks : WF_vars(\E c \in Contents : trace_fork_submit(t, c))
    /\ WF_vars(Consume)
    /\ WF_vars(ProcConsume)
SpecLive == InitLive /\ [][NextLive]_vars /\ Fairness

\* ------------------------------------------------------------ properties
Key(t) == bpf_get_current_pid_tgid(t)
StoreOf(type) == IF type = SSL_WRITE THEN ssl_write_args ELSE ssl_read_args
Resident(m, key) == {e \in m : e.key = key}

\* The records in the ring, by header position, and what they show
InRing == LET r == RbRecords(events.mem, events.consumer_pos, events.producer_pos)
          IN {r[i] : i \in 1..Len(r)}
Committed(pos) == ~RbBusy(events.mem, pos) /\ ~RbDiscarded(events.mem, pos)
Event(pos) == SslEventAt(events.mem, pos)
Reserving == {t \in Threads : hnd[t].pc = "reserved"}
IsReturn(t, ret) == ssl_write_return(t, ret) \/ ssl_read_return(t, ret)

\* C1: every SSLDataEvent committed to the ring has 0 < data_len <= MAX_DATA_SIZE,
\* a record is only ever being built for an invocation whose result was
\* positive (it carries that result as its data_len), and a return handler
\* invoked with a result <= 0 reserves and commits nothing.
C1_Inv ==
    /\ \A pos \in InRing : Committed(pos) =>
          /\ Event(pos).data_len > 0
          /\ Event(pos).data_len <= MAX_DATA_SIZE
    /\ \A t \in Reserving :
          /\ hnd[t].len > 0
          /\ Event(hnd[t].event).data_len = hnd[t].len
C1_Act ==
    \A t \in Threads, ret \in Rets :
        (ret <= 0 /\ IsReturn(t, ret)) => UNCHANGED <<events, hnd, commitLog>>
C1_CommittedLengths == []C1_Inv /\ [][C1_Act]_vars

\* C1 witness: a committed event of full length sits in the ring and the step
\* just taken was a return handler that found its entry and a result <= 0
C1_Witness ==
    /\ \E pos \in InRing : Committed(pos) /\ Event(pos).data_len = MAX_DATA_SIZE
    /\ last.op = "return" /\ last.res = "nonpos"

\* C2: whatever way a return handler ends (result <= 0, over-length result,
\* ring full, record reserved and then discarded or submitted), the store of
\* its call kind holds no entry for its thread from its first step on.
C2_EntryRemoved ==
    /\ last.op \in {"return", "copy"} => Resident(StoreOf(last.type), Key(last.t)) = {}
    /\ \A t \in Reserving : Resident(StoreOf(hnd[t].type), Key(t)) = {}

\* C2 witness: a return handler found its entry and the ring full, and the
\* entry is gone
C2_Witness ==
    /\ last.op = "return" /\ last.res = "full"
    /\ Resident(StoreOf(last.type), Key(last.t)) = {}

\* C3 as stated: at most one entry per key, and an entry handler always leaves
\* exactly one resident entry for its (thread, kind).
AtMostOnePerKey(m) == \A e1 \in m, e2 \in m : e1.key = e2.key => e1 = e2
C3_Original ==
    /\ AtMostOnePerKey(ssl_write_args) /\ AtMostOnePerKey(ssl_read_args)
    /\ last.op = "entry" => Cardinality(Resident(StoreOf(last.type), Key(last.t))) = 1

\* C3 as amended: at most one entry per key in every state; an entry handler
\* leaves exactly one entry for its key, holding the new buffer pointer and
\* replacing the one stored before, except when the store already holds
\* MAX_ENTRIES entries and none for this key: then the store is unchanged.
StoreFullFor(m, key) == Resident(m, key) = {} /\ Cardinality(m) >= MAX_ENTRIES
EntryEffect(m, mNext, key, buf) ==
    IF StoreFullFor(m, key)
    THEN mNext = m
    ELSE /\ Resident(mNext, key) = {[key |-> key, value |-> buf]}
         /\ \A e \in m \cup mNext : e.key # key => (e \in m /\ e \in mNext)
C3_Inv ==
    /\ AtMostOnePerKey(ssl_write_args) /\ AtMostOnePerKey(ssl_read_args)
    /\ Cardinality(ssl_write_args) <= MAX_ENTRIES
    /\ Cardinality(ssl_read_args) <= MAX_ENTRIES
C3_Act ==
    \A t \in Threads, buf \in Bufs :
        /\ ssl_write_entry(t, buf) => EntryEffect(ssl_write_args, ssl_write_args', Key(t), buf)
        /\ ssl_read_entry(t, buf) => EntryEffect(ssl_read_args, ssl_read_args', Key(t), buf)
C3_OneEntryPerKey == []C3_Inv /\ [][C3_Act]_vars

\* C3 witness: an entry handler has just replaced the entry of its key, which
\* is the only one of that key, in a store that is at its maximum
C3_Witness ==
    /\ last.op = "entry" /\ last.res = "replaced"
    /\ Cardinality(Resident(StoreOf(last.type), Key(last.t))) = 1
    /\ Cardinality(StoreOf(last.type)) = MAX_ENTRIES

\* C4 as stated: after two entries of one call kind on one thread with no
\* return between them (buffers B1 then B2), the store holds B2 for that
\* thread, so that the next return resolves against B2.
Pairs == Threads \X Types
EntryOf(p, buf) == [key |-> Key(p[1]), value |-> buf]
C4_Original ==
    \A p \in Pairs :
        Len(hist[p]) = 2 => Resident(StoreOf(p[2]), Key(p[1])) = {EntryOf(p, hist[p][2])}

\* C4 as amended: after entries B1 then B2 the store never holds B1 for the
\* thread: it holds B2, or nothing when the insertions failed on a full store.
\* The next return with an entry resident, a result in 1..MAX_DATA_SIZE and room
\* in the ring reserves one record for buffer B2; any next return reserves at
\* most one record, never one for B1, and leaves no entry, so that a second
\* return finds none and produces nothing.
ReturnOf(t, type, ret) == IF type = SSL_WRITE THEN ssl_write_return(t, ret) ELSE ssl_read_return(t, ret)
C4_Inv ==
    \A p \in Pairs :
        /\ hist[p] = <<>> => Resident(StoreOf(p[2]), Key(p[1])) = {}
        /\ hist[p] # <<>> => Resident(StoreOf(p[2]), Key(p[1])) \subseteq {EntryOf(p, hist[p][Len(hist[p])])}
C4_Act ==
    \A p \in Pairs, ret \in Rets :
        (Len(hist[p]) = 2 /\ ReturnOf(p[1], p[2], ret)) =>
            /\ hnd'[p[1]].pc = "reserved" => hnd'[p[1]].buf = hist[p][2]
            /\ ( /\ Resident(StoreOf(p[2]), Key(p[1])) # {}
                 /\ ret \in 1..MAX_DATA_SIZE
                 /\ RbHasSpace(events, SIZEOF_ssl_data_event) ) => hnd'[p[1]].pc = "reserved"
            /\ events'.producer_pos - events.producer_pos <= RbRecLen(SIZEOF_ssl_data_event)
            /\ commitLog' = commitLog
            /\ hist'[p] = <<>>
            /\ Resident(IF p[2] = SSL_WRITE THEN ssl_write_args' ELSE ssl_read_args', Key(p[1])) = {}
C4_ResolvesLatest == []C4_Inv /\ [][C4_Act]_vars

\* C4 witness: a return that followed entries B1 then B2 (B1 # B2) has reserved
\* a record for B2, and the store holds nothing for the thread
C4_Witness ==
    /\ last.op = "return" /\ last.res = "reserved" /\ last.over # 0
    /\ hnd[last.t].pc = "reserved" /\ hnd[last.t].buf # last.over
    /\ Resident(StoreOf(last.type), Key(last.t)) = {}

\* C5: when the copy step of a return handler commits its record (the buffer
\* was readable), the committed event carries the result as data_len, the call
\* kind of the handler as type, and payload[0 .. data_len) equals the first
\* data_len bytes of the recorded buffer at that time, for every result in
\* 1..MAX_DATA_SIZE.
C5_Act ==
    \A t \in Threads, c \in Contents :
        (c # 0 /\ emit_ssl_event_copy(t, c)) =>
            LET h == hnd[t]
                ev == SslEventAt(events'.mem, h.event)
            IN /\ ~RbBusy(events'.mem, h.event) /\ ~RbDiscarded(events'.mem, h.event)
               /\ ev.data_len = h.len
               /\ ev.type = h.type
               /\ SubSeq(ev.data, 1, ev.data_len) = UserBytes(h.buf, c, ev.data_len)
C5_PayloadIsBuffer == [][C5_Act]_vars

\* C6 as stated: a return handler that finds its entry with a result above
\* MAX_DATA_SIZE, and room in the ring, goes on with the length clamped: it
\* reserves a record whose data_len is MAX_DATA_SIZE.
C6_OriginalAct ==
    \A p \in Pairs, ret \in Rets :
        ( /\ ret > MAX_DATA_SIZE
          /\ Resident(StoreOf(p[2]), Key(p[1])) # {}
          /\ RbHasSpace(events, SIZEOF_ssl_data_event)
          /\ ReturnOf(p[1], p[2], ret) ) =>
            /\ hnd'[p[1]].pc = "reserved"
            /\ SslEventAt(events'.mem, hnd'[p[1]].event).data_len = MAX_DATA_SIZE
C6_Act ==
    \A p \in Pairs, ret \in Rets :
        ( /\ ret > MAX_DATA_SIZE
          /\ Resident(StoreOf(p[2]), Key(p[1])) # {}
          /\ ReturnOf(p[1], p[2], ret) ) =>
            /\ UNCHANGED <<events, hnd, commitLog, drained>>
            /\ Resident(IF p[2] = SSL_WRITE THEN ssl_write_args' ELSE ssl_read_args', Key(p[1])) = {}
C7_Act ==
    \A p \in Pairs, ret \in Rets :
        ( /\ \A e \in StoreOf(p[2]) : e.key # Key(p[1])
          /\ ReturnOf(p[1], p[2], ret) ) =>
            UNCHANGED <<ssl_write_args, ssl_read_args, events, hnd, commitLog, drained>>
C7_UnmatchedReturn == [][C7_Act]_vars

\* C7 witness: a return handler found no entry although the other store holds
\* one for the same thread, and the ring had room
C7_Witness ==
    /\ last.op = "return" /\ last.res = "miss"
    /\ \E type \in Types : type # last.type /\ Resident(StoreOf(type), Key(last.t)) # {}
    /\ RbHasSpace(events, SIZEOF_ssl_data_event)

\* C8: when the read of the recorded buffer fails after the record was
\* reserved, the record is discarded and not committed, the committed records
\* and every other record of the ring keep their bytes, the other handlers in
\* flight keep their state, and the consumer is never handed a record that was
\* not committed.
Seen(log) == {log[i] : i \in 1..Len(log)}
RecordBytes(mem, pos) == LoadBytes(mem, pos, RbRecLen(SIZEOF_ssl_data_event))
C8_Inv == Seen(drained) \subseteq Seen(commitLog)
C8_Act ==
    \A t \in Threads, c \in Contents :
        (~ProbeReadOk(ReadSize(hnd[t].len), c) /\ emit_ssl_event_copy(t, c)) =>
            /\ RbDiscarded(events'.mem, hnd[t].event)
            /\ ~RbBusy(events'.mem, hnd[t].event)
            /\ commitLog' = commitLog /\ drained' = drained
            /\ events'.producer_pos = events.producer_pos
            /\ events'.consumer_pos = events.consumer_pos
            /\ \A pos \in InRing \ {hnd[t].event} :
                  RecordBytes(events'.mem, pos) = RecordBytes(events.mem, pos)
            /\ \A u \in Threads \ {t} : hnd'[u] = hnd[u]
C8_FailedReadDiscards == []C8_Inv /\ [][C8_Act]_vars

\* C8 witness: a handler has just discarded its record, which is in the ring
\* marked discarded, while another handler holds a reserved record
C8_Witness ==
    /\ last.op = "copy" /\ last.res = "discarded"
    /\ Reserving # {}
    /\ \E pos \in InRing : RbDiscarded(events.mem, pos)

\* C9: the bytes of the records reserved or committed and not yet drained
\* never exceed the size of the ring; a return handler that needs a record when
\* the room left is less than one record reserves nothing, changes no record
\* in the ring and ends in that same step, its event dropped.
RECURSIVE SumLen(_)
SumLen(lens) == IF lens = <<>> THEN 0 ELSE Head(lens) + SumLen(Tail(lens))
Undrained == RbRecords(events.mem, events.consumer_pos, events.producer_pos)
UndrainedBytes == SumLen([i \in 1..Len(Undrained) |-> RbRecLen(RbHdrSize(events.mem, Undrained[i]))])
RoomLeft == RINGBUF_SIZE - (events.producer_pos - events.consumer_pos)
C9_Inv ==
    /\ UndrainedBytes <= RINGBUF_SIZE
    /\ UndrainedBytes = events.producer_pos - events.consumer_pos
    /\ \A i \in 1..Len(Undrained) : RbHdrSize(events.mem, Undrained[i]) = SIZEOF_ssl_data_event
C9_Act ==
    \A p \in Pairs, ret \in Rets :
        ( /\ RoomLeft < RbRecLen(SIZEOF_ssl_data_event)
          /\ ReturnOf(p[1], p[2], ret) ) =>
            /\ UNCHANGED <<events, hnd, commitLog, drained>>
            /\ hnd'[p[1]].pc = "idle"
C9_CapacityNeverExceeded == []C9_Inv /\ [][C9_Act]_vars

\* C9 witness: a return handler with a positive result and an entry found the
\* ring without room for its record, after the ring had wrapped
C9_Witness ==
    /\ last.op = "return" /\ last.res = "full"
    /\ RoomLeft < RbRecLen(SIZEOF_ssl_data_event)
    /\ events.producer_pos > RINGBUF_SIZE

\* C10 as stated: the consumer is handed committed events in the order of
\* their commits: of two events it was handed, the one committed first was
\* handed first.
IndexIn(log, x) == CHOOSE i \in 1..Len(log) : log[i] = x
C10_Original ==
    \A i \in 1..Len(drained), j \in 1..Len(drained) :
        (i < j /\ drained[i] \in Seen(commitLog) /\ drained[j] \in Seen(commitLog)) =>
            IndexIn(commitLog, drained[i]) < IndexIn(commitLog, drained[j])

\* C10 as amended: the consumer is handed committed events in the order in
\* which their records were reserved, whatever the order of the commits; it
\* never goes past a record that is still being built, and it is handed only
\* committed events.
C10_Inv ==
    /\ \A i \in 1..Len(drained), j \in 1..Len(drained) : i < j => drained[i] < drained[j]
    /\ Seen(drained) \subseteq Seen(commitLog)
    /\ \A t \in Reserving : hnd[t].event >= events.consumer_pos
    /\ \A i \in 1..Len(drained) : drained[i] < events.consumer_pos
C10_Act ==
    Consume => /\ ~RbBusy(events.mem, events.consumer_pos)
               /\ events'.consumer_pos = events.consumer_pos + RbRecLen(SIZEOF_ssl_data_event)
               /\ events'.mem = events.mem
C10_ReservationOrder == []C10_Inv /\ [][C10_Act]_vars

\* C10 witness: the consumer was handed two events, the first of which was
\* committed after the second
C10_Witness ==
    /\ Len(drained) = 2 /\ Len(commitLog) = 2
    /\ commitLog[1] = drained[2] /\ commitLog[2] = drained[1]

\* C11: a handler run by one thread leaves the entries of every other thread
\* as they are, in both stores, and a return that goes on to build an event
\* does so for the buffer that the same thread's latest entry of that kind
\* recorded.
StoreNext(type) == IF type = SSL_WRITE THEN ssl_write_args' ELSE ssl_read_args'
HandlerStep(t) ==
    \/ \E buf \in Bufs : ssl_write_entry(t, buf) \/ ssl_read_entry(t, buf)
    \/ \E ret \in Rets : ssl_write_return(t, ret) \/ ssl_read_return(t, ret)
    \/ \E c \in Contents : emit_ssl_event_copy(t, c)
C11_Act ==
    /\ \A t \in Threads, u \in Threads, type \in Types :
          (t # u /\ HandlerStep(t)) =>
              Resident(StoreNext(type), Key(u)) = Resident(StoreOf(type), Key(u))
    /\ \A p \in Pairs, ret \in Rets :
          (ReturnOf(p[1], p[2], ret) /\ hnd'[p[1]].pc = "reserved") =>
              /\ hist[p] # <<>>
              /\ hnd'[p[1]].buf = hist[p][Len(hist[p])]
              /\ hnd'[p[1]].type = p[2]
C11_ThreadsNeverCollide == [][C11_Act]_vars

\* C11 witness: a return has reserved a record for its own thread's buffer
\* while another thread has an entry of the same kind with another buffer
C11_Witness ==
    /\ last.op = "return" /\ last.res = "reserved"
    /\ \E u \in Threads \ {last.t} :
          \E e \in Resident(StoreOf(last.type), Key(u)) : e.value # hnd[last.t].buf

\* C12: a write entry or write return leaves the read store unchanged and a
\* read entry or read return leaves the write store unchanged; with a read and
\* a write pending on one thread, the store of each kind holds the buffer that
\* the entry of that kind recorded, which is what its return resolves against.
C12_Inv ==
    \A p \in Pairs :
        hist[p] # <<>> => Resident(StoreOf(p[2]), Key(p[1])) \subseteq {EntryOf(p, hist[p][Len(hist[p])])}
C12_Act ==
    \A t \in Threads :
        /\ \A buf \in Bufs : ssl_write_entry(t, buf) => ssl_read_args' = ssl_read_args
        /\ \A buf \in Bufs : ssl_read_entry(t, buf) => ssl_write_args' = ssl_write_args
        /\ \A ret \in Rets : ssl_write_return(t, ret) =>
              /\ ssl_read_args' = ssl_read_args
              /\ hnd'[t].pc = "reserved" => hnd'[t].buf = hist[<<t, SSL_WRITE>>][Len(hist[<<t, SSL_WRITE>>])]
        /\ \A ret \in Rets : ssl_read_return(t, ret) =>
              /\ ssl_write_args' = ssl_write_args
              /\ hnd'[t].pc = "reserved" => hnd'[t].buf = hist[<<t, SSL_READ>>][Len(hist[<<t, SSL_READ>>])]
C12_KindsIndependent == []C12_Inv /\ [][C12_Act]_vars

\* C12 witness: one thread had a read and a write pending with different
\* buffers; the return of one kind has reserved a record for its own buffer and
\* the entry of the other kind is still resident
C12_Witness ==
    /\ last.op = "return" /\ last.res = "reserved"
    /\ \E type \in Types \ {last.type} :
          \E e \in Resident(StoreOf(type), Key(last.t)) : e.value # hnd[last.t].buf

\* C18: neither store ever holds more than MAX_ENTRIES entries; an entry
\* handler that finds the store full and no entry for its thread leaves both
\* stores unchanged, and the return of a call whose entry is not resident
\* changes neither the stores nor the ring and commits nothing.
C18_Inv ==
    /\ Cardinality(ssl_write_args) <= MAX_ENTRIES
    /\ Cardinality(ssl_read_args) <= MAX_ENTRIES
    /\ (last.op = "entry" /\ last.res = "nospace") =>
          /\ Resident(StoreOf(last.type), Key(last.t)) = {}
          /\ Cardinality(StoreOf(last.type)) = MAX_ENTRIES
C18_Act ==
    \A p \in Pairs :
        /\ \A buf \in Bufs :
              ( /\ StoreFullFor(StoreOf(p[2]), Key(p[1]))
                /\ IF p[2] = SSL_WRITE THEN ssl_write_entry(p[1], buf) ELSE ssl_read_entry(p[1], buf) ) =>
                  UNCHANGED <<ssl_write_args, ssl_read_args, events, hnd, commitLog>>
        /\ \A ret \in Rets :
              ( /\ hist[p] # <<>>
                /\ Resident(StoreOf(p[2]), Key(p[1])) = {}
                /\ ReturnOf(p[1], p[2], ret) ) =>
                  UNCHANGED <<ssl_write_args, ssl_read_args, events, hnd, commitLog>>
C18_FullStoreDropsCall == []C18_Inv /\ [][C18_Act]_vars

\* C18 witness: a thread's entries found the store full, and its return has
\* just ended unmatched with the store still full
C18_Witness ==
    /\ last.op = "return" /\ last.res = "miss" /\ last.over # 0
    /\ Cardinality(StoreOf(last.type)) = MAX_ENTRIES

\* C20: per (thread, kind) the committed events are at most as many as the
\* entry handler invocations and as the return handler invocations with a
\* positive result; an entry handler reserves and commits nothing; a return
\* handler invocation commits at most one event, and the event it builds
\* carries the pid and tid under which the entry it consumed was stored.
InFlight(p) == IF hnd[p[1]].pc = "reserved" /\ hnd[p[1]].type = p[2] THEN 1 ELSE 0
C20_Inv ==
    \A p \in Pairs :
        /\ count[p].commits + InFlight(p) <= count[p].entries
        /\ count[p].commits + InFlight(p) <= count[p].returns
C20_Act ==
    /\ \A t \in Threads, buf \in Bufs :
          (ssl_write_entry(t, buf) \/ ssl_read_entry(t, buf)) => UNCHANGED <<events, hnd, commitLog>>
    /\ \A p \in Pairs, ret \in Rets :
          ReturnOf(p[1], p[2], ret) =>
              /\ commitLog' = commitLog
              /\ hnd'[p[1]].pc = "reserved" =>
                    /\ \E e \in StoreOf(p[2]) : e.key = Key(p[1])
                    /\ SslEventAt(events'.mem, hnd'[p[1]].event).pid = Key(p[1]).tgid
                    /\ SslEventAt(events'.mem, hnd'[p[1]].event).tid = Key(p[1]).pid
                    /\ SslEventAt(events'.mem, hnd'[p[1]].event).type = p[2]
    /\ \A t \in Threads, c \in Contents :
          emit_ssl_event_copy(t, c) =>
              /\ Len(commitLog') <= Len(commitLog) + 1
              /\ hnd'[t].pc = "idle"
              /\ SslEventAt(events'.mem, hnd[t].event).pid = Key(t).tgid
              /\ SslEventAt(events'.mem, hnd[t].event).tid = Key(t).pid
              /\ \A p \in Pairs : p # <<t, hnd[t].type>> => count'[p] = count[p]
ProcInRing == LET r == RbRecords(proc_events.mem, proc_events.consumer_pos, proc_events.producer_pos)
              IN {r[i] : i \in 1..Len(r)}
ProcCommitted(mem, pos) == ~RbBusy(mem, pos) /\ ~RbDiscarded(mem, pos)
ProcEvent(pos) == ProcEventAt(proc_events.mem, pos)
HasNul(field) == \E i \in 1..Len(field) : field[i] = 0

\* C13: a trace_fork firing that finds room reserves exactly one record, and
\* the step that ends it commits that record with pid = ppid = the parent's
\* pid, type = PROC_FORK and exit_code = the child's pid, for every parent and
\* child pid.
C13_Act ==
    /\ \A t \in Tasks, parent_pid \in ParentPids, child_pid \in ChildPids :
          (RbHasSpace(proc_events, SIZEOF_process_event) /\ trace_fork(t, parent_pid, child_pid)) =>
              /\ proc_hnd'[t].pc = "fork" /\ proc_hnd'[t].event = proc_events.producer_pos
              /\ proc_events'.producer_pos = proc_events.producer_pos + RbRecLen(SIZEOF_process_event)
              /\ RbBusy(proc_events'.mem, proc_hnd'[t].event)
              /\ proc_hnd'[t].parent_pid = parent_pid /\ proc_hnd'[t].child_pid = child_pid
    /\ \A t \in Tasks, c \in Contents :
          trace_fork_submit(t, c) =>
              LET h == proc_hnd[t]
                  ev == ProcEventAt(proc_events'.mem, h.event)
              IN /\ ProcCommitted(proc_events'.mem, h.event)
                 /\ ev.pid = h.parent_pid /\ ev.ppid = h.parent_pid
                 /\ ev.type = PROC_FORK
                 /\ ev.exit_code = h.child_pid
                 /\ proc_hnd'[t].pc = "idle"
                 /\ proc_events'.producer_pos = proc_events.producer_pos
C13_ForkEvent == [][C13_Act]_vars

\* C13 witness: a fork event has just been committed in a record that reuses
\* ring memory, and shows the child's pid as exit_code
C13_Witness ==
    /\ proc_last.op = "fork" /\ proc_last.res = "submitted"
    /\ proc_last.event >= 2 * RbRecLen(SIZEOF_process_event)
    /\ ProcEvent(proc_last.event).exit_code = proc_last.arg
    /\ ProcEvent(proc_last.event).exit_code \in ChildPids

\* C14: a trace_exec firing that found room and whose filename is readable
\* commits an event with type = PROC_EXEC and exit_code = 0 whose exe holds the
\* filename cut to MAX_PATH_LEN - 1 bytes, followed by a terminator.
C14_Act ==
    \A t \in Tasks, filename \in Filenames, c \in Contents :
        (c # 0 /\ trace_exec_submit(t, filename, c)) =>
            LET pos == proc_hnd[t].event
                ev == ProcEventAt(proc_events'.mem, pos)
                n == IF Len(filename) > MAX_PATH_LEN - 1 THEN MAX_PATH_LEN - 1 ELSE Len(filename)
            IN /\ ProcCommitted(proc_events'.mem, pos)
               /\ ev.type = PROC_EXEC
               /\ ev.exit_code = 0
               /\ SubSeq(ev.exe, 1, n) = SubSeq(filename, 1, n)
               /\ ev.exe[n + 1] = 0
C14_ExecPathTruncated == [][C14_Act]_vars

\* C14 witness: an exec event has just been committed for a filename longer
\* than the exe field, of which exe shows the first MAX_PATH_LEN - 1 bytes
C14_Witness ==
    /\ proc_last.op = "exec" /\ proc_last.res = "submitted"
    /\ proc_last.arg > MAX_PATH_LEN
    /\ ProcEvent(proc_last.event).exe = <<47, 98, 99, 0>>

C16_Act ==
    \A t \in Tasks, filename \in Filenames :
        trace_exec_submit(t, filename, 0) =>
            /\ RbDiscarded(proc_events'.mem, proc_hnd[t].event)
            /\ ~ProcCommitted(proc_events'.mem, proc_hnd[t].event)
C16_FailedPathReadDiscards == [][C16_Act]_vars

\* C17: a trace_exit firing that found room commits an event with type =
\* PROC_EXIT and exit_code = the task's exit status whose exe and args are
\* empty strings, also where the record lies on ring memory used before.
C17_Act ==
    \A t \in Tasks :
        trace_exit_submit(t) =>
            LET pos == proc_hnd[t].event
                ev == ProcEventAt(proc_events'.mem, pos)
            IN /\ ProcCommitted(proc_events'.mem, pos)
               /\ ev.type = PROC_EXIT
               /\ ev.exit_code = proc_hnd[t].exit_code
               /\ ev.exe[1] = 0
               /\ ev.args[1] = 0
C17_ExitEventFieldsEmpty == [][C17_Act]_vars

\* C19: every handler that reserved a record ends with exactly one submit or
\* discard of that record, and of no other, so that a record is busy only
\* while its handler runs; hence, with the consumer draining, a ring that
\* refuses a reservation accepts one again.
ProcReserving == {t \in Tasks : proc_hnd[t].pc # "idle"}
HeldBy(mem, pos, held) == RbBusy(mem, pos) <=> (\E e \in held : e = pos)
C19_Inv ==
    /\ \A pos \in InRing : HeldBy(events.mem, pos, {hnd[t].event : t \in Reserving})
    /\ \A pos \in ProcInRing : HeldBy(proc_events.mem, pos, {proc_hnd[t].event : t \in ProcReserving})
    /\ \A t1 \in Reserving, t2 \in Reserving : hnd[t1].event = hnd[t2].event => t1 = t2
    /\ \A t1 \in ProcReserving, t2 \in ProcReserving : proc_hnd[t1].event = proc_hnd[t2].event => t1 = t2
    /\ {hnd[t].event : t \in Reserving} \subseteq InRing
    /\ {proc_hnd[t].event : t \in ProcReserving} \subseteq ProcInRing
C19_Act ==
    /\ \A t \in Reserving :
          hnd'[t].pc = "idle" =>
              /\ ~RbBusy(events'.mem, hnd[t].event)
              /\ \A pos \in InRing \ {hnd[t].event} : RbBusy(events'.mem, pos) = RbBusy(events.mem, pos)
    /\ \A t \in ProcReserving :
          proc_hnd'[t].pc = "idle" =>
              /\ ~RbBusy(proc_events'.mem, proc_hnd[t].event)
              /\ \A pos \in ProcInRing \ {proc_hnd[t].event} :
                    RbBusy(proc_events'.mem, pos) = RbBusy(proc_events.mem, pos)
    /\ \A pos \in InRing :
          (~RbBusy(events.mem, pos) /\ pos >= events'.consumer_pos) =>
              RecordBytes(events'.mem, pos) = RecordBytes(events.mem, pos)
    /\ \A pos \in ProcInRing :
          (~RbBusy(proc_events.mem, pos) /\ pos >= proc_events'.consumer_pos) =>
              LoadBytes(proc_events'.mem, pos, RbRecLen(SIZEOF_process_event))
                  = LoadBytes(proc_events.mem, pos, RbRecLen(SIZEOF_process_event))
C19_Live ==
    /\ \A t \in Threads : (hnd[t].pc = "reserved") ~> (hnd[t].pc = "idle")
    /\ \A t \in Tasks : (proc_hnd[t].pc # "idle") ~> (proc_hnd[t].pc = "idle")
    /\ (~RbHasSpace(events, SIZEOF_ssl_data_event)) ~> RbHasSpace(events, SIZEOF_ssl_data_event)
    /\ (~RbHasSpace(proc_events, SIZEOF_process_event)) ~> RbHasSpace(proc_events, SIZEOF_process_event)
C19_HandlersComplete == []C19_Inv /\ [][C19_Act]_vars /\ C19_Live

\* C19 witness: a task's reservation has just been refused on a full ring
\* whose oldest record is still busy, held by a handler of another task that
\* has not yet submitted it: the consumer cannot drain until that handler ends
C19_Witness ==
    /\ proc_last.res = "full"
    /\ ~RbHasSpace(proc_events, SIZEOF_process_event)
    /\ RbBusy(proc_events.mem, proc_events.consumer_pos)
    /\ \E t \in ProcReserving : proc_hnd[t].event = proc_events.consumer_pos

====
